---- MODULE Spec2Model ----
(***************************************************************************)
(* A model of app.py: the Streamlit page that resolves a player name to an *)
(* id (get_player_id) and draws the last-15-games chart                    *)
(* (plot_last_15_games).                                                   *)
(*                                                                         *)
(* Representation.                                                         *)
(*   - a Python str is a sequence of one-character strings;                *)
(*   - an Optional value is <<>> (None) or <<v>>;                          *)
(*   - a float mean is NaN (<<>>) or the exact fraction <<sum, count>>;    *)
(*   - a fractional percentage column (FG_PCT, ...) holds thousandths      *)
(*     (452 stands for 0.452);                                             *)
(*   - a cell of the provider's table is [t, v, s]: an int v (t = "int")   *)
(*     or a str s (t = "str").                                            *)
(***************************************************************************)
EXTENDS Integers, Sequences, FiniteSets, TLC

VARIABLES
    pc,           \* position of the script within one run
    player_name,  \* value of the text input handed to plot_last_15_games
    player_dict,  \* players.get_players() as returned to get_player_id
    player_id,    \* result of get_player_id: <<>> is None
    gamelog,      \* PlayerGameLog response (the provider's rows, newest first)
    df,           \* the working DataFrame (sequence of rows)
    game_labels,  \* x tick labels
    avgs,         \* the six averages, <<>> before they are computed
    page,         \* elements streamlit put on the page in this run, in order
    effects,      \* outbound requests and page outputs of this run, in order
    fault         \* <<>> or <<kind>>: the exception that ended the run

vars == <<pc, player_name, player_dict, player_id, gamelog, df, game_labels,
          avgs, page, effects, fault>>

-----------------------------------------------------------------------------
(* Bounds of the model *)

MaxRoster == 2    \* longest roster the provider returns
MaxLog == 17      \* longest game log the provider returns

(* Program constants *)

WindowSize == 15  \* df.head(15)

None == <<>>
NaN == <<>>

-----------------------------------------------------------------------------
(* Strings *)

\* str.lower() on one character
LowerChar(c) ==
    CASE c = "A" -> "a"
      [] c = "B" -> "b"
      [] c = "L" -> "l"
      [] c = "O" -> "o"
      [] OTHER -> c

\* mutant: the comparison keeps the case
LowerKeepsCase(s) == s

\* str.lower()
Lower(s) == [i \in 1..Len(s) |-> LowerChar(s[i])]

\* sub in s
In(sub, s) == \E i \in 0..(Len(s) - Len(sub)) : SubSeq(s, i + 1, i + Len(sub)) = sub

RECURSIVE SplitFrom(_, _, _, _)
SplitFrom(s, i, cur, acc) ==
    IF i > Len(s)
    THEN IF cur = <<>> THEN acc ELSE Append(acc, cur)
    ELSE IF s[i] = " "
         THEN SplitFrom(s, i + 1, <<>>, IF cur = <<>> THEN acc ELSE Append(acc, cur))
         ELSE SplitFrom(s, i + 1, Append(cur, s[i]), acc)

\* str.split(): the maximal runs of non-whitespace characters
Split(s) == SplitFrom(s, 1, <<>>, <<>>)

-----------------------------------------------------------------------------
(* get_player_id *)

RECURSIVE ScanFrom(_, _, _)
ScanFrom(players, name, i) ==
    IF i > Len(players) THEN None
    ELSE IF Lower(players[i].full_name) = Lower(name)
         THEN <<players[i].id>>
         ELSE ScanFrom(players, name, i + 1)

RECURSIVE ScanBack(_, _, _)
ScanBack(players, name, i) ==
    IF i < 1 THEN None
    ELSE IF Lower(players[i].full_name) = Lower(name)
         THEN <<players[i].id>>
         ELSE ScanBack(players, name, i - 1)

\* mutant: the last match wins
GetPlayerIdLast(players, name) == ScanBack(players, name, Len(players))

\* the for loop of get_player_id over the roster
GetPlayerId(players, name) == ScanFrom(players, name, 1)

\* `not player_id`
Falsy(pid) == IF pid = None THEN TRUE ELSE pid[1] = 0

-----------------------------------------------------------------------------
(* Inputs: what the user types and what the provider returns *)

InputNames ==
    { <<"A", "l">>, <<"a", "L">>, <<"A", "l", " ">>, <<"A">>, <<"B", "o">>, <<>> }

RosterNames ==
    { <<"A", "l">>, <<"A", "L">>, <<"A", "l", "a">> }

Ids == {0, 7, 9}

Entities == [full_name : RosterNames, id : Ids]

RECURSIVE SeqsUpTo(_, _)
SeqsUpTo(S, n) ==
    IF n = 0 THEN {<<>>}
    ELSE LET shorter == SeqsUpTo(S, n - 1)
         IN shorter \cup {Append(q, x) : q \in {r \in shorter : Len(r) = n - 1}, x \in S}

Rosters == SeqsUpTo(Entities, MaxRoster)

-----------------------------------------------------------------------------
(* The provider's game log *)

NumericColumns ==
    {"PTS", "REB", "AST", "STL", "PLUS_MINUS", "FG_PCT", "FG3_PCT", "FT_PCT", "MIN"}

IntCell(n) == [t |-> "int", v |-> n, s |-> <<>>]
StrCell(str) == [t |-> "str", v |-> 0, s |-> str]

LAL_vs_BOS == <<"L", "A", "L", " ", "v", "s", " ", "B", "O", "S">>
LAL_vsdot_NYK == <<"L", "A", "L", " ", "v", "s", ".", " ", "N", "Y", "K">>
LAL_at_BOS == <<"L", "A", "L", " ", "@", " ", "B", "O", "S">>
LAL_at_DEN == <<"L", "A", "L", " ", "@", " ", "D", "E", "N">>

\* the matchup descriptors the provider writes, with what each one denotes
Descriptors ==
    { [text |-> LAL_vs_BOS, opponent |-> <<"B", "O", "S">>, home |-> TRUE],
      [text |-> LAL_vsdot_NYK, opponent |-> <<"N", "Y", "K">>, home |-> TRUE],
      [text |-> LAL_at_BOS, opponent |-> <<"B", "O", "S">>, home |-> FALSE],
      [text |-> LAL_at_DEN, opponent |-> <<"D", "E", "N">>, home |-> FALSE] }

BaseMatchup(i) ==
    CASE i % 4 = 1 -> LAL_vs_BOS
      [] i % 4 = 2 -> LAL_at_DEN
      [] i % 4 = 3 -> LAL_vsdot_NYK
      [] OTHER -> LAL_at_BOS

\* the i-th most recent game of a well-formed log
BaseEntry(i) ==
    [ GAME_DATE |-> IF i <= 9 THEN <<"APR", 10 - i, 2025>> ELSE <<"MAR", 40 - i, 2025>>,
      MATCHUP |-> BaseMatchup(i),
      PTS |-> IntCell(10 * (((i - 1) % 4) + 1)),
      REB |-> IntCell((i % 5) + 3),
      AST |-> IntCell((i * 3) % 7),
      STL |-> IntCell(i % 3),
      PLUS_MINUS |-> IntCell(((i * 5) % 11) - 5),
      FG_PCT |-> IntCell(400 + ((i * 13) % 100)),
      FG3_PCT |-> IntCell(300 + ((i * 7) % 100)),
      FT_PCT |-> IntCell(700 + ((i * 11) % 100)),
      MIN |-> IntCell(30 + (i % 8)) ]

\* strings pd.to_numeric cannot parse / can parse
BadStrings == { <<"1", "x">> }
NumericStrings == { <<"4", "2">> }

\* strings without any token
BlankStrings == { <<>>, <<" ">> }

\* one deviation of a log from the well-formed one: a column and its value
Anomalies ==
    {[col |-> c, val |-> StrCell(str)] : c \in NumericColumns, str \in BadStrings \cup NumericStrings}
    \cup {[col |-> "MATCHUP", val |-> str] : str \in BlankStrings}

Log(n, p, a) ==
    [i \in 1..n |-> IF i = p THEN [BaseEntry(i) EXCEPT ![a.col] = a.val] ELSE BaseEntry(i)]

Logs ==
    {[i \in 1..n |-> BaseEntry(i)] : n \in 0..MaxLog}
    \cup UNION {{Log(n, p, a) : p \in 1..n, a \in Anomalies} : n \in 1..MaxLog}

-----------------------------------------------------------------------------
(* The report builder's transformations *)

Min(a, b) == IF a < b THEN a ELSE b

\* df.head(n)
DfHead(d, n) == SubSeq(d, 1, Min(n, Len(d)))

Digits == {"0", "1", "2", "3", "4", "5", "6", "7", "8", "9"}

DigitVal(c) ==
    CASE c = "0" -> 0 [] c = "1" -> 1 [] c = "2" -> 2 [] c = "3" -> 3 [] c = "4" -> 4
      [] c = "5" -> 5 [] c = "6" -> 6 [] c = "7" -> 7 [] c = "8" -> 8 [] OTHER -> 9

RECURSIVE ParseDigits(_, _)
ParseDigits(str, acc) ==
    IF str = <<>> THEN acc ELSE ParseDigits(Tail(str), 10 * acc + DigitVal(Head(str)))

IsDigits(str) == str # <<>> /\ \A i \in 1..Len(str) : str[i] \in Digits

\* pd.to_numeric accepts the cell (errors="raise" is the default)
Parsable(cell) ==
    \/ cell.t = "int"
    \/ IsDigits(cell.s)
    \/ cell.s # <<>> /\ cell.s[1] = "-" /\ IsDigits(Tail(cell.s))

\* pd.to_numeric on one cell
ToNumeric(cell) ==
    IF cell.t = "int" THEN cell.v
    ELSE IF cell.s[1] = "-" THEN 0 - ParseDigits(Tail(cell.s), 0)
    ELSE ParseDigits(cell.s, 0)

\* mutant: MIN is left out of the converted columns
CoerceOKMissingMin(d) ==
    \A i \in 1..Len(d) : \A c \in NumericColumns \ {"MIN"} : Parsable(d[i][c])

\* every cell of the nine columns can be converted
CoerceOK(d) == \A i \in 1..Len(d) : \A c \in NumericColumns : Parsable(d[i][c])

\* df[cols] = df[cols].apply(pd.to_numeric)
Coerce(d) ==
    [i \in 1..Len(d) |->
        [c \in DOMAIN d[i] |-> IF c \in NumericColumns THEN ToNumeric(d[i][c]) ELSE d[i][c]]]

MonthNum(m) == CASE m = "MAR" -> 3 [] m = "APR" -> 4 [] OTHER -> 1

\* pd.to_datetime on the GAME_DATE column
ToDatetime(d) ==
    [i \in 1..Len(d) |->
        [d[i] EXCEPT !.GAME_DATE =
            [year |-> d[i].GAME_DATE[3], month |-> MonthNum(d[i].GAME_DATE[1]),
             day |-> d[i].GAME_DATE[2]]]]

\* mutant: the frame is left newest first
ReverseNot(d) == d

\* df[::-1]
Reverse(d) == [i \in 1..Len(d) |-> d[Len(d) + 1 - i]]

\* x.split()[-1] raises IndexError on some row
MatchupOK(d) == \A i \in 1..Len(d) : Split(d[i].MATCHUP) # <<>>

\* lambda x: x.split()[-1]
Opponent(x) == LET tokens == Split(x) IN tokens[Len(tokens)]

\* mutant: "vs" must be a token of its own
HomeAwayToken(x) == IF \E k \in 1..Len(Split(x)) : Split(x)[k] = <<"v", "s">> THEN "H" ELSE "A"

\* lambda x: "H" if "vs" in x else "A"
HomeAway(x) == IF In(<<"v", "s">>, x) THEN "H" ELSE "A"

\* df["OPPONENT"] = ...; df["HOME_AWAY"] = ...
Derive(d) ==
    [i \in 1..Len(d) |->
        d[i] @@ [OPPONENT |-> Opponent(d[i].MATCHUP), HOME_AWAY |-> HomeAway(d[i].MATCHUP)]]

\* strftime('%b')
MonthAbbr(m) == CASE m = 3 -> "Mar" [] m = 4 -> "Apr" [] OTHER -> "Jan"

\* f"{row['GAME_DATE'].strftime('%b %d')} vs {row['OPPONENT']} ({row['HOME_AWAY']})"
GameLabels(d) ==
    [i \in 1..Len(d) |->
        [month |-> MonthAbbr(d[i].GAME_DATE.month), day |-> d[i].GAME_DATE.day,
         opponent |-> d[i].OPPONENT, home_away |-> d[i].HOME_AWAY]]

RECURSIVE SumCol(_, _, _)
SumCol(d, c, i) == IF i > Len(d) THEN 0 ELSE d[i][c] + SumCol(d, c, i + 1)

\* df[c].mean(): NaN on an empty column
Mean(d, c) == IF Len(d) = 0 THEN NaN ELSE <<SumCol(d, c, 1), Len(d)>>

\* mutant: the fraction is not turned into a percentage
Times100NoScale(m) == m

\* mean * 100
Times100(m) == IF m = NaN THEN NaN ELSE <<m[1] * 100, m[2]>>

\* lines 51-56
Averages(d) ==
    [ avg_pts |-> Mean(d, "PTS"),
      avg_reb |-> Mean(d, "REB"),
      avg_ast |-> Mean(d, "AST"),
      avg_min |-> Mean(d, "MIN"),
      avg_fg_pct |-> Times100(Mean(d, "FG_PCT")),
      avg_3p_pct |-> Times100(Mean(d, "FG3_PCT")) ]

\* pts > avg_pts (False against NaN)
Above(pts, m) == IF m = NaN THEN FALSE ELSE pts * m[2] > m[1]

Column(d, c) == [i \in 1..Len(d) |-> d[i][c]]

\* the figure built by lines 59-97
Figure(d, labels, a, name) ==
    [ games |-> [i \in 1..Len(d) |-> i],
      pts |-> Column(d, "PTS"),
      pts_colors |-> [i \in 1..Len(d) |->
                        IF Above(d[i].PTS, a.avg_pts) THEN "royalblue" ELSE "lightblue"],
      reb |-> Column(d, "REB"),
      ast |-> Column(d, "AST"),
      min |-> Column(d, "MIN"),
      xticklabels |-> labels,
      title |-> name,
      panel |-> <<a.avg_pts, a.avg_reb, a.avg_ast, a.avg_min, a.avg_fg_pct, a.avg_3p_pct>> ]

-----------------------------------------------------------------------------
Init ==
    /\ pc = "idle"
    /\ player_name = <<>>
    /\ player_dict = <<>>
    /\ player_id = None
    /\ gamelog = <<>>
    /\ df = <<>>
    /\ game_labels = <<>>
    /\ avgs = <<>>
    /\ page = <<>>
    /\ effects = <<>>
    /\ fault = <<>>

\* st.button("Generate Chart") pressed: the script reruns on an empty page and
\* calls plot_last_15_games(player_name)
Click ==
    /\ pc \in {"idle", "done", "fault"}
    /\ \E name \in InputNames : player_name' = name
    /\ pc' = "resolve"
    /\ player_dict' = <<>>
    /\ player_id' = None
    /\ gamelog' = <<>>
    /\ df' = <<>>
    /\ game_labels' = <<>>
    /\ avgs' = <<>>
    /\ page' = <<>>
    /\ effects' = <<>>
    /\ fault' = <<>>

\* player_id = get_player_id(player_name)
Resolve ==
    /\ pc = "resolve"
    /\ \E roster \in Rosters :
          /\ player_dict' = roster
          /\ player_id' = GetPlayerId(roster, player_name)
    /\ effects' = Append(effects, "roster_fetch")
    /\ pc' = "check"
    /\ UNCHANGED <<player_name, gamelog, df, game_labels, avgs, page, fault>>

\* line 10: players.get_players() fails (service unavailable)
ResolveFault ==
    /\ pc = "resolve"
    /\ effects' = Append(effects, "roster_fetch")
    /\ fault' = <<"ConnectionError">>
    /\ pc' = "fault"
    /\ UNCHANGED <<player_name, player_dict, player_id, gamelog, df, game_labels, avgs, page>>

\* mutant: the error banner is shown but the function does not return
NotFoundNoReturn ==
    /\ pc = "check"
    /\ Falsy(player_id)
    /\ page' = Append(page, [kind |-> "error", name |-> player_name])
    /\ effects' = Append(effects, "error_banner")
    /\ player_dict' = <<>>
    /\ pc' = "fetch"
    /\ UNCHANGED <<player_name, player_id, gamelog, df, game_labels, avgs, fault>>

\* lines 20-22: st.error(...); return
NotFound ==
    /\ pc = "check"
    /\ Falsy(player_id)
    /\ page' = Append(page, [kind |-> "error", name |-> player_name])
    /\ effects' = Append(effects, "error_banner")
    /\ player_dict' = <<>>
    /\ pc' = "done"
    /\ UNCHANGED <<player_name, player_id, gamelog, df, game_labels, avgs, fault>>

\* mutant: the success banner is not shown before the log is requested
SuccessSilent ==
    /\ pc = "check"
    /\ ~Falsy(player_id)
    /\ player_dict' = <<>>
    /\ pc' = "fetch"
    /\ UNCHANGED <<player_name, player_id, gamelog, df, game_labels, avgs, page, effects,
                   fault>>

\* line 24: st.success(...)
Success ==
    /\ pc = "check"
    /\ ~Falsy(player_id)
    /\ page' = Append(page, [kind |-> "success", name |-> player_name, id |-> player_id[1]])
    /\ effects' = Append(effects, "success_banner")
    /\ player_dict' = <<>>
    /\ pc' = "fetch"
    /\ UNCHANGED <<player_name, player_id, gamelog, df, game_labels, avgs, fault>>

\* lines 27-28: the log request answered
FetchLog ==
    /\ pc = "fetch"
    /\ \E log \in Logs :
          /\ gamelog' = log
          /\ df' = log
    /\ effects' = Append(effects, "log_fetch")
    /\ pc' = "transform"
    /\ UNCHANGED <<player_name, player_dict, player_id, game_labels, avgs, page, fault>>

\* lines 27-28: the log request fails (service unavailable)
FetchLogFault ==
    /\ pc = "fetch"
    /\ effects' = Append(effects, "log_fetch")
    /\ fault' = <<"ConnectionError">>
    /\ pc' = "fault"
    /\ UNCHANGED <<player_name, player_dict, player_id, gamelog, df, game_labels, avgs, page>>

\* lines 31-35: pd.to_numeric raises
CoerceFault ==
    /\ pc = "transform"
    /\ ~CoerceOK(DfHead(df, WindowSize))
    /\ df' = DfHead(df, WindowSize)
    /\ fault' = <<"ValueError: Unable to parse string">>
    /\ pc' = "fault"
    /\ UNCHANGED <<player_name, player_dict, player_id, gamelog, game_labels, avgs, page,
                   effects>>

\* lines 31-42: x.split()[-1] raises
MatchupFault ==
    /\ pc = "transform"
    /\ CoerceOK(DfHead(df, WindowSize))
    /\ LET d == Reverse(ToDatetime(Coerce(DfHead(df, WindowSize))))
       IN /\ ~MatchupOK(d)
          /\ df' = d
    /\ fault' = <<"IndexError: list index out of range">>
    /\ pc' = "fault"
    /\ UNCHANGED <<player_name, player_dict, player_id, gamelog, game_labels, avgs, page,
                   effects>>

\* lines 31-56
Transform ==
    /\ pc = "transform"
    /\ CoerceOK(DfHead(df, WindowSize))
    /\ LET d == Reverse(ToDatetime(Coerce(DfHead(df, WindowSize))))
       IN /\ MatchupOK(d)
          /\ df' = Derive(d)
          /\ game_labels' = GameLabels(Derive(d))
          /\ avgs' = Averages(Derive(d))
    /\ pc' = "plot"
    /\ UNCHANGED <<player_name, player_dict, player_id, gamelog, page, effects, fault>>

\* lines 59-100: the figure is built and st.pyplot(fig) puts it on the page
Render ==
    /\ pc = "plot"
    /\ page' = Append(page, [kind |-> "pyplot",
                             fig |-> Figure(df, game_labels, avgs, player_name)])
    /\ effects' = Append(effects, "chart")
    /\ pc' = "done"
    /\ UNCHANGED <<player_name, player_dict, player_id, gamelog, df, game_labels, avgs, fault>>

\* lines 59-97 on an empty frame: whether pandas and matplotlib accept the empty
\* label frame is decided by the installed versions, so both outcomes are kept
RenderFaultEmpty ==
    /\ pc = "plot"
    /\ Len(df) = 0
    /\ fault' = <<"ValueError: number of labels">>
    /\ pc' = "fault"
    /\ UNCHANGED <<player_name, player_dict, player_id, gamelog, df, game_labels, avgs, page,
                   effects>>

Next ==
    \/ Click
    \/ Resolve
    \/ ResolveFault
    \/ NotFound
    \/ Success
    \/ FetchLog
    \/ FetchLogFault
    \/ CoerceFault
    \/ MatchupFault
    \/ Transform
    \/ Render
    \/ RenderFaultEmpty

Spec == Init /\ [][Next]_vars
-----------------------------------------------------------------------------
(* Properties *)

Terminal == pc \in {"done", "fault"}

\* the two spellings of each cased letter
CasePairs == { {"A", "a"}, {"B", "b"}, {"L", "l"}, {"O", "o"} }

\* equal apart from case, position by position
CaseEq(a, b) ==
    /\ Len(a) = Len(b)
    /\ \A i \in 1..Len(a) : a[i] = b[i] \/ {a[i], b[i]} \in CasePairs

\* positions of the roster whose full name is the input apart from case
Matches == {i \in 1..Len(player_dict) : CaseEq(player_dict[i].full_name, player_name)}

FirstMatch == CHOOSE i \in Matches : \A j \in Matches : i <= j

HasPage(kind) == \E k \in 1..Len(page) : page[k].kind = kind

Count(kind) == Cardinality({k \in 1..Len(effects) : effects[k] = kind})

\* C1: exactly one roster name equal to the input apart from case gives that
\* entity's id, none gives None; a trailing blank or a prefix does not match.
C1_ExactCaseInsensitiveMatch ==
    pc = "check" =>
        /\ Cardinality(Matches) = 1 =>
              \A i \in Matches : player_id = <<player_dict[i].id>>
        /\ Matches = {} => player_id = None
        /\ player_name \in { <<"A", "l", " ">>, <<"A">>, <<>> } => player_id = None
        /\ (\A i \in 1..Len(player_dict) : player_dict[i].full_name = <<"A", "l", "a">>)
              => player_id = None

C1_Witness ==
    /\ pc = "check"
    /\ Len(player_dict) = 2
    /\ Matches = {2}
    /\ player_dict[2].full_name # player_name
    /\ player_dict[1].full_name = <<"A", "l", "a">>
    /\ player_id = <<player_dict[2].id>>
    /\ player_dict[1].id # player_dict[2].id

\* C9: with several matching roster entries the id returned is the one of the
\* first of them in roster order.
C9_FirstMatchWins ==
    pc = "check" /\ Matches # {} => player_id = <<player_dict[FirstMatch].id>>

C9_Witness ==
    /\ pc = "check"
    /\ Matches = {1, 2}
    /\ player_dict[1].id = 9
    /\ player_dict[2].id = 7
    /\ player_dict[1].full_name # player_dict[2].full_name
    /\ player_id = <<9>>

\* C2: a run that returns shows exactly one banner: the success banner with the
\* resolved id, followed by the chart, when the resolver found the name (whatever
\* the id), the error banner when it did not.
C2_BannerFollowsResolution ==
    pc = "done" =>
        IF player_id # None
        THEN /\ Len(page) = 2
             /\ page[1] = [kind |-> "success", name |-> player_name, id |-> player_id[1]]
             /\ page[2].kind = "pyplot"
        ELSE page = <<[kind |-> "error", name |-> player_name]>>

\* C3: when the name is not found the run returns normally with the error banner
\* as its only output: no success banner, no log request, no chart, no fault.
C3_NotFoundOnlyErrorBanner ==
    /\ player_id = None /\ pc \notin {"idle", "resolve"} /\ fault # <<"ConnectionError">>
          => pc \in {"check", "done"}
    /\ player_id = None /\ pc = "done" =>
          /\ page = <<[kind |-> "error", name |-> player_name]>>
          /\ effects = <<"roster_fetch", "error_banner">>
          /\ gamelog = <<>>
          /\ fault = <<>>

C3_Witness ==
    /\ pc = "done"
    /\ player_id = None
    /\ player_name = <<"A", "l", " ">>
    /\ page = <<[kind |-> "error", name |-> player_name]>>
\* number of entries the report retains
WindowLen == IF Len(gamelog) < WindowSize THEN Len(gamelog) ELSE WindowSize

\* the report has been built from the fetched log
Built == avgs # <<>>

\* the number a parsable cell of the provider's table stands for
ExpectedValue(cell) == IF cell.t = "int" THEN cell.v ELSE 42

\* a cell holding a string that is not a number
BadCell(cell) == cell.t = "str" /\ cell.s \in BadStrings

\* rows of the provider's log with an unparsable value in a numeric column
BadRows == {i \in 1..Len(gamelog) : \E c \in NumericColumns : BadCell(gamelog[i][c])}

\* C4: the report is built from exactly the first min(N, 15) provider entries,
\* taken in reverse (oldest first): rows, labels, bars and the averages' count.
C4_ReportWindow ==
    Built =>
        LET n == WindowLen
        IN /\ Len(df) = n
           /\ Len(game_labels) = n
           /\ \A i \in 1..n :
                 LET e == gamelog[n + 1 - i]
                 IN /\ df[i].MATCHUP = e.MATCHUP
                    /\ df[i].GAME_DATE.day = e.GAME_DATE[2]
                    /\ \A c \in NumericColumns : df[i][c] = ExpectedValue(e[c])
                    /\ game_labels[i].day = e.GAME_DATE[2]
           /\ n >= 1 => \A a \in DOMAIN avgs : avgs[a][2] = n
           /\ \A k \in 1..Len(page) :
                 page[k].kind = "pyplot" =>
                    /\ page[k].fig.games = [i \in 1..n |-> i]
                    /\ page[k].fig.pts = [i \in 1..n |-> ExpectedValue(gamelog[n + 1 - i].PTS)]
                    /\ page[k].fig.reb = [i \in 1..n |-> ExpectedValue(gamelog[n + 1 - i].REB)]
                    /\ page[k].fig.ast = [i \in 1..n |-> ExpectedValue(gamelog[n + 1 - i].AST)]
                    /\ page[k].fig.min = [i \in 1..n |-> ExpectedValue(gamelog[n + 1 - i].MIN)]
                    /\ Len(page[k].fig.xticklabels) = n
                    /\ \A i \in 1..n :
                          page[k].fig.xticklabels[i].day = gamelog[n + 1 - i].GAME_DATE[2]

C4_Witness ==
    /\ pc = "done"
    /\ Len(gamelog) = WindowSize + 2
    /\ HasPage("pyplot")
    /\ Len(df) = WindowSize
    /\ df[1].GAME_DATE.day = gamelog[WindowSize].GAME_DATE[2]
    /\ \E c \in NumericColumns : gamelog[WindowSize + 1][c].t = "str"

\* tok is the last whitespace-delimited token of str
IsLastToken(tok, str) ==
    /\ tok # <<>>
    /\ \A j \in 1..Len(tok) : tok[j] # " "
    /\ \E k \in 1..Len(str) :
          /\ SubSeq(str, k, k + Len(tok) - 1) = tok
          /\ k = 1 \/ str[k - 1] = " "
          /\ \A j \in (k + Len(tok))..Len(str) : str[j] = " "

\* C5: for every retained entry the opponent is the last token of the matchup
\* and the flag is "H" exactly when the matchup contains "vs"; the provider's
\* "vs"/"vs." descriptors give "H", its "@" descriptors give "A".
C5_HomeAwayDerivation ==
    Built =>
        \A i \in 1..Len(df) :
            LET m == df[i].MATCHUP
            IN /\ IsLastToken(df[i].OPPONENT, m)
               /\ df[i].HOME_AWAY = "H" <=> \E j \in 1..(Len(m) - 1) : m[j] = "v" /\ m[j + 1] = "s"
               /\ df[i].HOME_AWAY \in {"H", "A"}
               /\ \A dsc \in Descriptors :
                     dsc.text = m =>
                        /\ df[i].OPPONENT = dsc.opponent
                        /\ df[i].HOME_AWAY = IF dsc.home THEN "H" ELSE "A"
               /\ (\E j \in 1..Len(m) : m[j] = "@") => df[i].HOME_AWAY = "A"

C5_Witness ==
    /\ pc = "plot"
    /\ \E i \in 1..Len(df) :
          /\ df[i].MATCHUP = LAL_at_BOS
          /\ df[i].OPPONENT = <<"B", "O", "S">>
          /\ df[i].HOME_AWAY = "A"
    /\ \E i \in 1..Len(df) :
          /\ df[i].MATCHUP = LAL_vsdot_NYK
          /\ df[i].OPPONENT = <<"N", "Y", "K">>
          /\ df[i].HOME_AWAY = "H"
    /\ \E i \in 1..Len(df) :
          /\ df[i].MATCHUP = LAL_vs_BOS
          /\ df[i].HOME_AWAY = "H"

\* C6: an unparsable value in a numeric column of a retained entry ends the run
\* in the conversion's fault with no chart and no averages; an unparsable value
\* only beyond the retained entries causes no fault.
C6_CoercionAllOrNothing ==
    /\ (\E i \in BadRows : i <= WindowSize) =>
          /\ pc \in {"transform", "fault"}
          /\ pc = "fault" => fault = <<"ValueError: Unable to parse string">>
          /\ ~HasPage("pyplot")
          /\ ~Built
    /\ (BadRows # {} /\ \A i \in BadRows : i > WindowSize) =>
          /\ pc \in {"transform", "plot", "done"}
          /\ pc = "done" => HasPage("pyplot")

C6_Witness ==
    /\ pc = "fault"
    /\ Len(gamelog) = WindowSize + 2
    /\ BadRows = {WindowSize}
    /\ BadCell(gamelog[WindowSize].FT_PCT)
    /\ page = <<[kind |-> "success", name |-> player_name, id |-> player_id[1]]>>

RECURSIVE SumNewest(_, _)
\* sum of column c over the k newest entries of the provider's log
SumNewest(c, k) == IF k = 0 THEN 0 ELSE ExpectedValue(gamelog[k][c]) + SumNewest(c, k - 1)

\* C8: each average is the column's sum over the retained entries divided by
\* their number n = min(N, 15) (n >= 1), the two percentages times 100; points
\* 10, 20, 30 average to exactly 20.
C8_Averages ==
    Built /\ WindowLen >= 1 =>
        LET n == WindowLen
        IN /\ avgs.avg_pts = <<SumNewest("PTS", n), n>>
           /\ avgs.avg_reb = <<SumNewest("REB", n), n>>
           /\ avgs.avg_ast = <<SumNewest("AST", n), n>>
           /\ avgs.avg_min = <<SumNewest("MIN", n), n>>
           /\ avgs.avg_fg_pct = <<100 * SumNewest("FG_PCT", n), n>>
           /\ avgs.avg_3p_pct = <<100 * SumNewest("FG3_PCT", n), n>>
           /\ (Len(gamelog) = 3 /\ \A i \in 1..3 : gamelog[i].PTS = IntCell(10 * i))
                 => avgs.avg_pts[1] = 20 * avgs.avg_pts[2]
           /\ \A k \in 1..Len(page) :
                 page[k].kind = "pyplot" =>
                    page[k].fig.panel[1] = <<SumNewest("PTS", n), n>>

C8_Witness ==
    /\ pc = "plot"
    /\ Len(gamelog) = WindowSize + 2
    /\ gamelog[WindowSize + 1].FG_PCT.t = "str"
    /\ gamelog[WindowSize + 1].FG_PCT.s \in NumericStrings
    /\ avgs.avg_fg_pct = <<100 * SumNewest("FG_PCT", WindowSize), WindowSize>>
    /\ avgs.avg_pts[2] = WindowSize

\* C10: the roster request is the first effect and happens once; the log is
\* requested at most once and only after the success banner; the chart is the
\* last effect and follows the log request; a fault after the log request
\* leaves the success banner on the page and no chart.
C10_EffectOrder ==
    /\ pc \in {"idle", "resolve"} => effects = <<>>
    /\ pc \notin {"idle", "resolve"} =>
          /\ effects # <<>>
          /\ effects[1] = "roster_fetch"
          /\ Count("roster_fetch") = 1
    /\ Count("log_fetch") <= 1
    /\ \A k \in 1..Len(effects) :
          effects[k] = "log_fetch" => \E j \in 1..(k - 1) : effects[j] = "success_banner"
    /\ \A k \in 1..Len(effects) :
          effects[k] = "chart" =>
             /\ k = Len(effects)
             /\ \E j \in 1..(k - 1) : effects[j] = "log_fetch"
    /\ pc = "fault" /\ Count("log_fetch") = 1 =>
          /\ HasPage("success")
          /\ ~HasPage("pyplot")
          /\ Count("chart") = 0

C10_Witness ==
    /\ pc = "fault"
    /\ fault = <<"IndexError: list index out of range">>
    /\ effects = <<"roster_fetch", "success_banner", "log_fetch">>
    /\ page = <<[kind |-> "success", name |-> player_name, id |-> player_id[1]]>>
====
